---------------------------- MODULE Spec2Model ----------------------------
(***************************************************************************)
(* A model of bot.py, the Discord conversation bot: the per-user           *)
(* conversation history (conversation_history), get_ai_response,           *)
(* reset_conversation, the on_message handler with its suspension points   *)
(* and the reset / help commands.                                          *)
(***************************************************************************)
EXTENDS Integers, Sequences, FiniteSets, TLC

(***************************************************************************)
(* Python strings.  A str is a sequence of characters; it is kept in       *)
(* run-length form, a sequence of runs <<c, n>> (n >= 1 copies of the      *)
(* character c, adjacent runs of different characters), so that a reply of *)
(* several thousand characters is a small value.  The form is canonical:   *)
(* two strings are equal iff their run sequences are equal.                *)
(***************************************************************************)

\* s + t
Concat(s, t) ==
    IF s = <<>> THEN t
    ELSE IF t = <<>> THEN s
    ELSE LET x == s[Len(s)]
             y == t[1]
         IN  IF x[1] = y[1]
             THEN SubSeq(s, 1, Len(s) - 1) \o << <<x[1], x[2] + y[2]>> >> \o Tail(t)
             ELSE s \o t

\* the str made of the characters cs, a tuple of one-character strings
RECURSIVE Str(_)
Str(cs) ==
    IF cs = <<>> THEN <<>>
    ELSE Concat(<< <<Head(cs), 1>> >>, Str(Tail(cs)))

\* c * n
Rep(c, n) == IF n <= 0 THEN <<>> ELSE << <<c, n>> >>

\* the characters of s, one by one
RECURSIVE Chars(_)
Chars(s) ==
    IF s = <<>> THEN <<>>
    ELSE LET r == Head(s)
         IN  IF r[2] = 1
             THEN <<r[1]>> \o Chars(Tail(s))
             ELSE <<r[1]>> \o Chars(<< <<r[1], r[2] - 1>> >> \o Tail(s))

\* len(s)
RECURSIVE StrLen(_)
StrLen(s) == IF s = <<>> THEN 0 ELSE Head(s)[2] + StrLen(Tail(s))

\* s[:k]
RECURSIVE UpTo(_, _)
UpTo(s, k) ==
    IF s = <<>> \/ k <= 0 THEN <<>>
    ELSE LET r == Head(s)
         IN  IF r[2] >= k
             THEN << <<r[1], k>> >>
             ELSE <<r>> \o UpTo(Tail(s), k - r[2])

\* s[i:]
RECURSIVE From(_, _)
From(s, i) ==
    IF s = <<>> THEN <<>>
    ELSE IF i <= 0 THEN s
    ELSE LET r == Head(s)
         IN  IF r[2] > i
             THEN << <<r[1], r[2] - i>> >> \o Tail(s)
             ELSE From(Tail(s), i - r[2])

\* s[i:j] for 0 <= i <= j
Slice(s, i, j) == From(UpTo(s, j), i)

\* does the character tuple cs hold the tuple p at position i (1-based)?
HasAt(cs, p, i) ==
    /\ i + Len(p) - 1 <= Len(cs)
    /\ SubSeq(cs, i, i + Len(p) - 1) = p

\* str.replace on character tuples, scanning left to right from position i:
\* every non-overlapping occurrence of old becomes new (old is not empty)
RECURSIVE ReplaceFrom(_, _, _, _)
ReplaceFrom(cs, old, new, i) ==
    IF i > Len(cs) THEN <<>>
    ELSE IF HasAt(cs, old, i)
         THEN new \o ReplaceFrom(cs, old, new, i + Len(old))
         ELSE <<cs[i]>> \o ReplaceFrom(cs, old, new, i + 1)

\* s.replace(old, new)
Replace(s, old, new) == Str(ReplaceFrom(Chars(s), Chars(old), Chars(new), 1))

\* the characters str.strip() removes
Whitespace == {" ", "\t", "\n"}

RECURSIVE LStripChars(_)
LStripChars(cs) ==
    IF cs # <<>> /\ Head(cs) \in Whitespace THEN LStripChars(Tail(cs)) ELSE cs

RECURSIVE RStripChars(_)
RStripChars(cs) ==
    IF cs # <<>> /\ cs[Len(cs)] \in Whitespace
    THEN RStripChars(SubSeq(cs, 1, Len(cs) - 1))
    ELSE cs

\* s.strip()
Strip(s) == Str(RStripChars(LStripChars(Chars(s))))

\* s.startswith(p)
StartsWith(s, p) == HasAt(Chars(s), Chars(p), 1)

\* does s contain p?
Contains(s, p) == \E i \in 1..StrLen(s) : HasAt(Chars(s), Chars(p), i)


(***************************************************************************)
(* Configuration and fixed texts.                                          *)
(***************************************************************************)

\* MAX_HISTORY_LENGTH = 20: "Maximum messages to remember per user"
MAX_HISTORY_LENGTH == 20

\* the 2000 of "Discord has a 2000 character limit"
DISCORD_LIMIT == 2000

\* SYSTEM_PROMPT: a fixed text nothing looks into; one symbol stands for it
SYSTEM_PROMPT == << <<"SYSTEM_PROMPT", 1>> >>

\* bot.command_prefix
command_prefix == Str(<<"!">>)

\* the digits of bot.user.id
BotId == <<"7">>

\* f"<@{bot.user.id}>"
PlainMention == Str(<<"<", "@">> \o BotId \o <<">">>)

\* f"<@!{bot.user.id}>"
NickMention == Str(<<"<", "@", "!">> \o BotId \o <<">">>)

\* "Sorry, I encountered an error: "
SorryPrefix ==
    Str(<<"S", "o", "r", "r", "y", ",", " ", "I", " ",
          "e", "n", "c", "o", "u", "n", "t", "e", "r", "e", "d", " ",
          "a", "n", " ", "e", "r", "r", "o", "r", ":", " ">>)

\* the text reset_command replies with, and help_command's embed: fixed
\* texts nothing looks into
ResetConfirmation == << <<"RESET_CONFIRMATION", 1>> >>
HelpEmbed == << <<"HELP_EMBED", 1>> >>

(***************************************************************************)
(* Who writes, and the slots of the on_message tasks that may be in        *)
(* flight at once.                                                         *)
(***************************************************************************)
Users == {"u1", "u2"}
BotUser == "bot"

\* how many on_message tasks may be in flight at once
MaxTasks == 2
Slots == 1..MaxTasks

\* how many gateway events a behaviour delivers
MaxEvents == 2

\* how many gateway events a long conversation delivers
MaxLongEvents == 12

(***************************************************************************)
(* The state.                                                              *)
(*   conversation_history  user -> list of turns {role, content}           *)
(*   task                  slot -> the on_message coroutine in that slot:  *)
(*                         where it is suspended (pc), message.author, the *)
(*                         message itself while line 145 has yet to read   *)
(*                         it (in a command), its locals, what it has      *)
(*                         emitted so far (out), and                       *)
(*                         entry, the user's buffer as get_ai_response     *)
(*                         found it (a history variable no action reads)   *)
(*   raised                the exceptions that left on_message unhandled   *)
(*   nEvents               gateway events delivered so far                 *)
(***************************************************************************)
VARIABLES conversation_history, task, raised, nEvents

vars == <<conversation_history, task, raised, nEvents>>

Turn(role, content) == [role |-> role, content |-> content]

NoMessage ==
    [author |-> "none", channel |-> "none", mentioned |-> FALSE, content |-> <<>>]

Idle ==
    [pc |-> "idle", author |-> "none", message |-> NoMessage, user_message |-> <<>>,
     messages |-> <<>>, response |-> <<>>, out |-> <<>>, entry |-> <<>>]

Init ==
    /\ conversation_history = [u \in Users |-> <<>>]
    /\ task = [s \in Slots |-> Idle]
    /\ raised = {}
    /\ nEvents = 0


(***************************************************************************)
(* The history store: the list operations of get_ai_response and           *)
(* reset_conversation.                                                     *)
(***************************************************************************)

\* an insert at the front: conversation_history[user_id].insert(0, ...)
append_front(h, turn) == <<turn>> \o h

\* conversation_history[user_id].append({"role": ..., "content": ...})
append(h, turn) == Append(h, turn)

\* a trim that keeps the oldest turns: h[:MAX_HISTORY_LENGTH]
Trim_oldest(h) ==
    IF Len(h) > MAX_HISTORY_LENGTH THEN SubSeq(h, 1, MAX_HISTORY_LENGTH) ELSE h

\* if len(h) > MAX_HISTORY_LENGTH: h = h[-MAX_HISTORY_LENGTH:]
Trim(h) ==
    IF Len(h) > MAX_HISTORY_LENGTH
    THEN SubSeq(h, Len(h) - MAX_HISTORY_LENGTH + 1, Len(h))
    ELSE h

\* messages built without the system turn
BuildMessages_nosystem(h) == h

\* messages = [{"role": "system", "content": SYSTEM_PROMPT}]; messages.extend(h)
BuildMessages(h) == <<Turn("system", SYSTEM_PROMPT)>> \o h

\* a rollback that removes the last exchange: the user turn and the turn
\* before it
pop_two(h) ==
    [list |-> IF Len(h) < 2 THEN <<>> ELSE SubSeq(h, 1, Len(h) - 2), raises |-> {}]

\* a rollback that removes nothing
pop_kept(h) == [list |-> h, raises |-> {}]

\* h.pop(): the list without its last element; on an empty list Python
\* raises IndexError and the list stays as it is
pop(h) ==
    IF h = <<>>
    THEN [list |-> h, raises |-> {"IndexError"}]
    ELSE [list |-> SubSeq(h, 1, Len(h) - 1), raises |-> {}]

\* a reset that assigns to a local name and leaves the store as it is
reset_conversation_local(hist, user_id) == hist

\* a reset of the whole store: conversation_history.clear()
reset_conversation_all(hist, user_id) == [u \in DOMAIN hist |-> <<>>]

\* reset_conversation(user_id): conversation_history[user_id] = []
reset_conversation(hist, user_id) == [hist EXCEPT ![user_id] = <<>>]

(***************************************************************************)
(* The dispatcher: on_message up to its first suspension.                  *)
(***************************************************************************)

\* the word the command framework reads after the prefix: the characters up
\* to the first whitespace
RECURSIVE WordChars(_)
WordChars(cs) ==
    IF cs = <<>> \/ Head(cs) \in Whitespace THEN <<>>
    ELSE <<Head(cs)>> \o WordChars(Tail(cs))

\* bot.process_commands(message): the command the message invokes, "none"
\* when it has no prefix or names no registered command
InvokedCommand(content) ==
    IF ~StartsWith(content, command_prefix) THEN "none"
    ELSE LET word == WordChars(Chars(From(content, StrLen(command_prefix))))
         IN  IF word = <<"r", "e", "s", "e", "t">> THEN "reset"
             ELSE IF word = <<"h", "e", "l", "p">> THEN "help"
             ELSE "none"

\* a routing that removes the mention and trims in direct messages too
Route_dm_stripped(message) ==
    IF message.channel = "dm" \/ message.mentioned
    THEN [should_respond |-> TRUE,
          user_message |-> Strip(Replace(message.content, NickMention, <<>>))]
    ELSE [should_respond |-> FALSE, user_message |-> message.content]

\* a routing that answers every message, mentioned or not
Route_respond_all(message) ==
    [should_respond |-> TRUE, user_message |-> message.content]

\* lines 148-161: should_respond and user_message for a message that is no
\* command.  The second assignment to user_message starts again from
\* message.content, so it is the one that counts.
Route(message) ==
    IF message.channel = "dm"
    THEN [should_respond |-> TRUE, user_message |-> message.content]
    ELSE IF message.mentioned
    THEN [should_respond |-> TRUE,
          user_message |-> Strip(Replace(message.content, NickMention, <<>>))]
    ELSE [should_respond |-> FALSE, user_message |-> message.content]

\* chunks cut by range(0, len(response) - 2000, 2000): the last one is lost
Chunks_short(response) ==
    [k \in 1..(StrLen(response) \div DISCORD_LIMIT) |->
        Slice(response, (k - 1) * DISCORD_LIMIT, k * DISCORD_LIMIT)]

\* line 174: [response[i:i+2000] for i in range(0, len(response), 2000)]
Chunks(response) ==
    [k \in 1..((StrLen(response) + DISCORD_LIMIT - 1) \div DISCORD_LIMIT) |->
        Slice(response, (k - 1) * DISCORD_LIMIT, k * DISCORD_LIMIT)]

\* the response sent whole, whatever its length
Fragments_whole(response) == <<response>>

\* lines 170-179: the texts sent for a response, in order; the first goes
\* out by message.reply, the others by message.channel.send
Fragments(response) ==
    IF StrLen(response) <= DISCORD_LIMIT THEN <<response>> ELSE Chunks(response)

Sent(via, text) == [via |-> via, text |-> text]

\* the completion call awaited (an async client): the loop is never held
LoopBlocked_awaited == FALSE

\* is the event loop held by a task inside the blocking
\* openai_client.chat.completions.create call?  get_ai_response is a plain
\* function: nothing else runs until it returns.
LoopBlocked == \E s \in Slots : task[s].pc = "create"

\* the slot a new task takes: the first free one
FreeSlot(s) ==
    /\ task[s].pc = "idle"
    /\ \A r \in Slots : r < s => task[r].pc # "idle"

\* may the gateway hand a message to a new task in slot s?
Deliverable(s) ==
    /\ ~LoopBlocked
    /\ FreeSlot(s)

\* on_message without the return of line 145
IsCommandText_noreturn(content) == FALSE

\* line 145: message.content.startswith(bot.command_prefix)
IsCommandText(content) == StartsWith(content, command_prefix)

\* lines 145-165, on_message once process_commands has returned: the task
\* returns, or it is suspended in message.channel.typing()
after_commands(message) ==
    LET r == Route(message)
    IN  IF IsCommandText(message.content) THEN Idle
        ELSE IF r.should_respond /\ r.user_message # <<>>
        THEN [Idle EXCEPT !.pc = "typing", !.author = message.author,
                          !.user_message = r.user_message]
        ELSE Idle

\* a task suspended in the ctx.reply of a command
in_command(message, text) ==
    [Idle EXCEPT !.pc = "command", !.author = message.author,
                 !.message = message, !.out = <<Sent("reply", text)>>]

\* on_message(message) from its start to its first suspension or its return
on_message(s, message) ==
    /\ Deliverable(s)
    /\ nEvents' = nEvents + 1
    /\ raised' = raised
    /\ IF message.author = BotUser
       THEN \* line 138: ignore messages from the bot itself
            UNCHANGED <<conversation_history, task>>
       ELSE LET cmd == InvokedCommand(message.content)
            IN  IF cmd = "reset"
                THEN \* reset_command: reset_conversation, then await ctx.reply(...)
                     /\ conversation_history' =
                            reset_conversation(conversation_history, message.author)
                     /\ task' = [task EXCEPT ![s] = in_command(message, ResetConfirmation)]
                ELSE IF cmd = "help"
                THEN \* help_command: await ctx.reply(embed=embed)
                     /\ conversation_history' = conversation_history
                     /\ task' = [task EXCEPT ![s] = in_command(message, HelpEmbed)]
                ELSE \* no command ran: on to line 145
                     /\ conversation_history' = conversation_history
                     /\ task' = [task EXCEPT ![s] = after_commands(message)]

\* ctx.reply returns and with it process_commands: on to line 145
command_done(s) ==
    /\ ~LoopBlocked
    /\ task[s].pc = "command"
    /\ task' = [task EXCEPT ![s] = after_commands(task[s].message)]
    /\ UNCHANGED <<conversation_history, raised, nEvents>>

\* the typing indicator is on: get_ai_response runs lines 78-89 and enters
\* the completion call with messages
get_ai_response(s) ==
    /\ ~LoopBlocked
    /\ task[s].pc = "typing"
    /\ LET user_id == task[s].author
           h == Trim(append(conversation_history[user_id],
                            Turn("user", task[s].user_message)))
       IN  /\ conversation_history' = [conversation_history EXCEPT ![user_id] = h]
           /\ task' = [task EXCEPT ![s].pc = "create",
                                   ![s].messages = BuildMessages(h),
                                   ![s].entry = conversation_history[user_id]]
    /\ UNCHANGED <<raised, nEvents>>

\* lines 168-177: get_ai_response has returned response; the first send
respond(t, response) ==
    [t EXCEPT !.pc = "send", !.response = response,
              !.out = <<Sent("reply", Fragments(response)[1])>>]

\* the completion call returns ai_message: lines 101-109
create_returns(s, ai_message) ==
    /\ task[s].pc = "create"
    /\ LET user_id == task[s].author
       IN  conversation_history' = [conversation_history EXCEPT ![user_id] =
               append(@, Turn("assistant", ai_message))]
    /\ task' = [task EXCEPT ![s] = respond(@, ai_message)]
    /\ UNCHANGED <<raised, nEvents>>

\* the completion call raises e: lines 111-114.  A pop that raises leaves
\* get_ai_response and on_message by that exception.
create_raises(s, e) ==
    /\ task[s].pc = "create"
    /\ LET user_id == task[s].author
           p == pop(conversation_history[user_id])
       IN  /\ conversation_history' = [conversation_history EXCEPT ![user_id] = p.list]
           /\ raised' = raised \cup p.raises
           /\ task' = [task EXCEPT ![s] =
                  IF p.raises = {} THEN respond(@, Concat(SorryPrefix, e)) ELSE Idle]
    /\ nEvents' = nEvents

\* message.reply or message.channel.send returns: the next chunk is sent,
\* or on_message returns
send_done(s) ==
    /\ ~LoopBlocked
    /\ task[s].pc = "send"
    /\ LET fs == Fragments(task[s].response)
           n == Len(task[s].out)
       IN  task' = [task EXCEPT ![s] =
               IF n < Len(fs)
               THEN [@ EXCEPT !.out = Append(@, Sent("send", fs[n + 1]))]
               ELSE Idle]
    /\ UNCHANGED <<conversation_history, raised, nEvents>>


(***************************************************************************)
(* What the gateway and the completion client may deliver.                 *)
(***************************************************************************)
Hi == Str(<<"h", "i">>)
Space == Str(<<" ">>)
ResetText == Str(<<"!", "r", "e", "s", "e", "t">>)
HelpText == Str(<<"!", "h", "e", "l", "p">>)
Ok == Str(<<"o", "k">>)
Timeout == Str(<<"t", "i", "m", "e", "o", "u", "t">>)

\* the message texts the gateway delivers: those that hold a mention token
\* of the bot, those that start with the command prefix, and the others
MentionContents ==
    { Concat(PlainMention, Concat(Space, Hi)),   \* <@7> hi
      Concat(NickMention, Concat(Space, Hi)),    \* <@!7> hi
      Concat(NickMention, Space),                \* <@!7> and a blank
      PlainMention }                             \* <@7>

PrefixedContents ==
    { ResetText,
      HelpText,
      Str(<<"!", "h", "i">>) }                   \* a prefix and no command

PlainContents ==
    { Hi,
      <<>> }                                     \* no text (an attachment)

Contents == MentionContents \cup PrefixedContents \cup PlainContents

\* a message: its author, the kind of its channel (a DMChannel or a guild
\* channel), bot.user.mentioned_in(message) and message.content.  A text
\* holding a mention token of the bot mentions the bot; a message may also
\* mention it without one (@everyone, a reply).
Messages ==
    [author : Users \cup {BotUser}, channel : {"dm", "guild"},
     mentioned : {TRUE}, content : Contents]
    \cup
    [author : Users \cup {BotUser}, channel : {"dm", "guild"},
     mentioned : {FALSE}, content : PrefixedContents \cup PlainContents]

\* response.choices[0].message.content, and str(e) of the exception the
\* completion call raises
Replies == {Ok}
Errors == {Timeout}

\* every message, one short reply, one short error
Next ==
    \/ \E s \in Slots :
          nEvents < MaxEvents /\ Deliverable(s) /\ \E m \in Messages : on_message(s, m)
    \/ \E s \in Slots : command_done(s)
    \/ \E s \in Slots : get_ai_response(s)
    \/ \E s \in Slots, r \in Replies : create_returns(s, r)
    \/ \E s \in Slots, e \in Errors : create_raises(s, e)
    \/ \E s \in Slots : send_done(s)

Spec == Init /\ [][Next]_vars

(***************************************************************************)
(* Replies and errors of every size around the 2000 character limit, for   *)
(* direct messages and commands of one user.                               *)
(***************************************************************************)
SendMessages ==
    [author : {"u1"}, channel : {"dm"}, mentioned : {FALSE},
     content : {Hi, ResetText, HelpText}]

SendReplies ==
    { Ok,
      <<>>,
      Rep("y", DISCORD_LIMIT),
      Rep("y", DISCORD_LIMIT + 1),
      Concat(Rep("y", DISCORD_LIMIT), Rep("z", DISCORD_LIMIT + 500)) }

SendErrors == { Timeout, Rep("x", DISCORD_LIMIT) }

NextSend ==
    \/ \E s \in Slots :
          nEvents < MaxEvents /\ Deliverable(s) /\ \E m \in SendMessages : on_message(s, m)
    \/ \E s \in Slots : command_done(s)
    \/ \E s \in Slots : get_ai_response(s)
    \/ \E s \in Slots, r \in SendReplies : create_returns(s, r)
    \/ \E s \in Slots, e \in SendErrors : create_raises(s, e)
    \/ \E s \in Slots : send_done(s)

SpecSend == Init /\ [][NextSend]_vars

(***************************************************************************)
(* A long conversation of one user by direct messages: enough exchanges    *)
(* to fill the buffer past MAX_HISTORY_LENGTH.  The user writes again once *)
(* the bot has begun to answer, with at most one answer still going out.   *)
(***************************************************************************)
LongMessages ==
    [author : {"u1"}, channel : {"dm"}, mentioned : {FALSE},
     content : {Hi, ResetText}]

NextLong ==
    \/ \E s \in Slots :
          /\ nEvents < MaxLongEvents
          /\ \A r \in Slots : task[r].pc \in {"idle", "send"}
          /\ Cardinality({r \in Slots : task[r].pc = "send"}) <= 1
          /\ Deliverable(s)
          /\ \E m \in LongMessages : on_message(s, m)
    \/ \E s \in Slots : command_done(s)
    \/ \E s \in Slots : get_ai_response(s)
    \/ \E s \in Slots, r \in Replies : create_returns(s, r)
    \/ \E s \in Slots, e \in Errors : create_raises(s, e)
    \/ \E s \in Slots : send_done(s)

SpecLong == Init /\ [][NextLong]_vars


(***************************************************************************)
(* The history store's operations on their own, called in any order on     *)
(* buffers of up to MaxStoreLen turns: append (with the trim that follows  *)
(* a user turn), the pop of the failure path, and reset_conversation.      *)
(***************************************************************************)
MaxStoreLen == 3

StoreTurns == {Turn("user", Hi), Turn("assistant", Ok)}

store_append(u, turn) ==
    /\ Len(conversation_history[u]) < MaxStoreLen
    /\ conversation_history' =
           [conversation_history EXCEPT ![u] = Trim(append(@, turn))]
    /\ UNCHANGED <<task, raised, nEvents>>

\* line 113 on the buffer of u: conversation_history[user_id].pop()
store_pop(u) ==
    LET p == pop(conversation_history[u])
    IN  /\ conversation_history' = [conversation_history EXCEPT ![u] = p.list]
        /\ raised' = raised \cup p.raises
        /\ UNCHANGED <<task, nEvents>>

store_reset(u) ==
    /\ conversation_history' = reset_conversation(conversation_history, u)
    /\ UNCHANGED <<task, raised, nEvents>>

NextStore ==
    \/ \E u \in Users, t \in StoreTurns : store_append(u, t)
    \/ \E u \in Users : store_pop(u)
    \/ \E u \in Users : store_reset(u)

SpecStore == Init /\ [][NextStore]_vars

(***************************************************************************)
(* Two users who write to the bot at the same time, each with a text of    *)
(* their own, and a completion client whose reply names the text it        *)
(* answers: every turn shows for whom it was appended.                     *)
(***************************************************************************)
MaxPairEvents == 4

Yo == Str(<<"y", "o">>)

\* what user u writes, and what the completion client answers to u
PairText(u) == IF u = "u1" THEN Hi ELSE Yo
PairReply(u) == Concat(Ok, PairText(u))

PairMessages ==
    [author : {"u1"}, channel : {"dm"}, mentioned : {FALSE},
     content : {PairText("u1"), ResetText}]
    \cup
    [author : {"u2"}, channel : {"dm"}, mentioned : {FALSE},
     content : {PairText("u2"), ResetText}]

NextPair ==
    \/ \E s \in Slots :
          nEvents < MaxPairEvents /\ Deliverable(s) /\ \E m \in PairMessages : on_message(s, m)
    \/ \E s \in Slots : command_done(s)
    \/ \E s \in Slots : get_ai_response(s)
    \/ \E s \in Slots :
          task[s].pc = "create" /\ create_returns(s, PairReply(task[s].author))
    \/ \E s \in Slots, e \in Errors : create_raises(s, e)
    \/ \E s \in Slots : send_done(s)

SpecPair == Init /\ [][NextPair]_vars

(***************************************************************************)
(* The claims.                                                             *)
(***************************************************************************)

\* C1: in every reachable state every user's buffer holds at most
\* MAX_HISTORY_LENGTH turns, also right after a successful exchange has
\* appended its assistant turn.
C1_HistoryAtMostMax ==
    \A u \in Users : Len(conversation_history[u]) <= MAX_HISTORY_LENGTH

\* C2: a request whose completion call fails leaves the user's buffer equal,
\* turn for turn, to what it was before the request appended its user turn.
C2_RollbackRestoresBuffer ==
    [][\A s \in Slots : \A e \in Errors :
          create_raises(s, e) =>
              conversation_history'[task[s].author] = task[s].entry]_vars

\* the text with every mention token of the bot removed, in the plain and in
\* the nickname encoding, and trimmed
WithoutMentions(content) ==
    Strip(Replace(Replace(content, PlainMention, <<>>), NickMention, <<>>))

Last(seq) == seq[Len(seq)]

\* the messages of users in a guild channel that mention the bot, are no
\* command and have a text beside the mention tokens
MentionMessages ==
    [author : Users, channel : {"guild"}, mentioned : {TRUE},
     content : { Hi,
                 Concat(PlainMention, Concat(Space, Hi)),
                 Concat(NickMention, Concat(Space, Hi)) }]

\* C3: for a message in a guild channel that mentions the bot, the user
\* message is the text without the bot's mention tokens (plain and nickname
\* encoding), trimmed; that text is what get_ai_response appends to the
\* history and sends to the completion client.
C3_MentionsStripped ==
    [][/\ nEvents' = nEvents + 1 =>
            \A s \in Slots : \A m \in MentionMessages :
               on_message(s, m)
               => /\ task'[s].pc = "typing"
                  /\ task'[s].user_message = WithoutMentions(m.content)
       /\ \A s \in Slots :
            get_ai_response(s) =>
               /\ Last(conversation_history'[task[s].author])
                     = Turn("user", task[s].user_message)
               /\ Last(task'[s].messages) = Turn("user", task[s].user_message)
      ]_vars


\* the messages whose text starts with the command prefix
PrefixedMessages ==
    [author : Users \cup {BotUser}, channel : {"dm", "guild"},
     mentioned : BOOLEAN, content : PrefixedContents]

\* C4: a message whose text starts with the command prefix never brings a
\* completion request and never appends a turn: its task is left idle or
\* suspended in the command's reply, from where it returns; the only change
\* of the history it makes is the reset of its author's buffer.  (For every
\* step that is on_message(s, m) of a prefixed message m: written as a
\* disjunction, the cheap disjuncts first.)
C4_CommandsNeverComplete ==
    [][/\ nEvents' = nEvents + 1 =>
            \A s \in Slots : \A m \in PrefixedMessages :
               \/ ~FreeSlot(s)
               \/ /\ task'[s].pc \in {"idle", "command"}
                  /\ \/ conversation_history' = conversation_history
                     \/ conversation_history' =
                            [conversation_history EXCEPT ![m.author] = <<>>]
               \/ ~on_message(s, m)
       /\ \A s \in Slots :
            /\ task'[s].pc = "command" =>
                   StartsWith(task'[s].message.content, command_prefix)
            /\ (task[s].pc = "command" /\ task'[s] # task[s]) =>
                   /\ task'[s].pc = "idle"
                   /\ conversation_history' = conversation_history
      ]_vars

\* C4's case: !reset has emptied the buffer of a user whose exchange had
\* succeeded (its answer is still going out), and its task is suspended in
\* the command's reply.
C4_Witness ==
    \E s \in Slots, t \in Slots :
        /\ task[s].pc = "command"
        /\ task[s].message.content = ResetText
        /\ task[t].pc = "send"
        /\ task[t].author = task[s].author
        /\ task[t].response = Ok
        /\ conversation_history[task[s].author] = <<>>

\* the texts sent so far, joined in the order they were sent
RECURSIVE Joined(_)
Joined(out) ==
    IF out = <<>> THEN <<>> ELSE Concat(out[1].text, Joined(Tail(out)))

\* the number of fragments a response of length L takes: 1 up to the limit,
\* the least n with n * limit >= L above it
FragmentCount(L) ==
    IF L <= DISCORD_LIMIT THEN 1
    ELSE CHOOSE n \in 1..L :
            (n - 1) * DISCORD_LIMIT < L /\ L <= n * DISCORD_LIMIT

\* C5: a response of length L goes out as exactly one fragment, a reply,
\* when L <= 2000, and as exactly ceil(L / 2000) fragments when L > 2000:
\* every fragment but the last of exactly 2000 characters, the last of at
\* most 2000, the first a reply and the others channel sends, in increasing
\* offset order, and joined they are the response.
C5_Fragmentation ==
    [][\A s \in Slots :
          /\ task'[s].pc = "send" =>
                LET t == task'[s]
                    L == StrLen(t.response)
                    n == Len(t.out)
                IN  /\ 1 <= n /\ n <= FragmentCount(L)
                    /\ t.out[1].via = "reply"
                    /\ \A k \in 2..n : t.out[k].via = "send"
                    /\ \A k \in 1..n :
                          /\ StrLen(t.out[k].text) <= DISCORD_LIMIT
                          /\ k < FragmentCount(L) =>
                                StrLen(t.out[k].text) = DISCORD_LIMIT
                    /\ Joined(t.out) = UpTo(t.response, n * DISCORD_LIMIT)
          /\ (task[s].pc = "send" /\ task'[s].pc = "idle") =>
                /\ Len(task[s].out) = FragmentCount(StrLen(task[s].response))
                /\ Joined(task[s].out) = task[s].response
      ]_vars

\* C5's case: a response of 4500 characters has gone out in three
\* fragments of 2000, 2000 and 500 characters.
C5_Witness ==
    \E s \in Slots :
        /\ task[s].pc = "send"
        /\ StrLen(task[s].response) = 2 * DISCORD_LIMIT + 500
        /\ Len(task[s].out) = 3
        /\ StrLen(task[s].out[1].text) = DISCORD_LIMIT
        /\ StrLen(task[s].out[2].text) = DISCORD_LIMIT
        /\ StrLen(task[s].out[3].text) = 500

\* the last n elements of h, in their order
LastTurns(h, n) == [i \in 1..n |-> h[Len(h) - n + i]]

\* C6: when the append of a user turn makes a buffer longer than
\* MAX_HISTORY_LENGTH, the buffer after the trim has exactly
\* MAX_HISTORY_LENGTH turns: the last ones of the buffer before the trim, in
\* their order.
C6_TrimKeepsNewest ==
    [][\A s \in Slots :
          get_ai_response(s) =>
             LET u == task[s].author
                 pre == Append(conversation_history[u],
                               Turn("user", task[s].user_message))
             IN  Len(pre) > MAX_HISTORY_LENGTH =>
                    /\ Len(conversation_history'[u]) = MAX_HISTORY_LENGTH
                    /\ conversation_history'[u] = LastTurns(pre, MAX_HISTORY_LENGTH)
      ]_vars

\* C6's case: a request found MAX_HISTORY_LENGTH + 1 turns, appended its
\* own, and the trim dropped the two oldest.
C6_Witness ==
    \E s \in Slots :
        /\ task[s].pc = "create"
        /\ Len(task[s].entry) = MAX_HISTORY_LENGTH + 1
        /\ Len(conversation_history[task[s].author]) = MAX_HISTORY_LENGTH

\* C7: the context sent to the completion client is the system turn followed
\* by the user's buffer as it stands after the append and the trim: at most
\* MAX_HISTORY_LENGTH + 1 turns, the first the system prompt, the last the
\* user turn of this request; the buffer is left as the append and the trim
\* made it.
C7_ContextIsSystemThenBuffer ==
    \A s \in Slots :
        task[s].pc = "create" =>
           LET m == task[s].messages
               h == conversation_history[task[s].author]
               own == Turn("user", task[s].user_message)
               pre == Append(task[s].entry, own)
           IN  /\ m = <<Turn("system", SYSTEM_PROMPT)>> \o h
               /\ Len(m) <= MAX_HISTORY_LENGTH + 1
               /\ m[1] = Turn("system", SYSTEM_PROMPT)
               /\ Last(m) = own
               /\ h = IF Len(pre) > MAX_HISTORY_LENGTH
                      THEN LastTurns(pre, MAX_HISTORY_LENGTH)
                      ELSE pre

\* C7's case: a context of MAX_HISTORY_LENGTH + 1 turns is with the
\* completion client.
C7_Witness ==
    \E s \in Slots :
        /\ task[s].pc = "create"
        /\ Len(task[s].messages) = MAX_HISTORY_LENGTH + 1

\* the !reset messages of users
ResetMessages ==
    [author : Users, channel : {"dm", "guild"}, mentioned : BOOLEAN,
     content : {ResetText}]

\* C8: !reset leaves its author's buffer empty whatever it held, so that the
\* context built from it is the system turn alone, and a request that finds
\* the buffer empty sends exactly the system turn and its own user turn; a
\* reset of an empty buffer changes nothing.
C8_ResetClears ==
    [][/\ nEvents' = nEvents + 1 =>
            \A s \in Slots : \A m \in ResetMessages :
               on_message(s, m)
               => /\ conversation_history'[m.author] = <<>>
                  /\ BuildMessages(conversation_history'[m.author])
                        = <<Turn("system", SYSTEM_PROMPT)>>
                  /\ conversation_history[m.author] = <<>> =>
                        conversation_history' = conversation_history
       /\ \A s \in Slots :
            (get_ai_response(s) /\ conversation_history[task[s].author] = <<>>)
            => task'[s].messages =
                  <<Turn("system", SYSTEM_PROMPT), Turn("user", task[s].user_message)>>
      ]_vars

\* C8's case: an exchange succeeded (its answer is still going out), the
\* buffer was reset, and the next request has sent a context of two turns.
C8_Witness ==
    \E s \in Slots, t \in Slots :
        /\ task[t].pc = "send"
        /\ task[t].response = Ok
        /\ task[s].pc = "create"
        /\ task[s].author = task[t].author
        /\ task[s].entry = <<>>
        /\ Len(task[s].messages) = 2

C10_AppendsMayInterleave ==
    \A s \in Slots, t \in Slots :
        ( /\ s # t
          /\ task[s].pc = "create"
          /\ task[t].pc = "typing"
          /\ task[t].author = task[s].author )
        => ENABLED get_ai_response(t)

\* C10, amended: the appends of two requests never interleave.  From the
\* append of a request's user turn to its assistant turn or rollback no
\* other request is in get_ai_response, and the buffer stays as the request
\* left it.
C10_AppendsNeverInterleave ==
    \A s \in Slots :
        task[s].pc = "create" =>
           /\ conversation_history[task[s].author] = Tail(task[s].messages)
           /\ \A t \in Slots : t # s => task[t].pc # "create"

\* C10's case: two requests of one user are in flight, the first in the
\* completion call, the second waiting to run get_ai_response.
C10_Witness ==
    \E s \in Slots, t \in Slots :
        /\ s # t
        /\ task[s].pc = "create"
        /\ task[t].pc = "typing"
        /\ task[t].author = task[s].author

\* the turns appended for user u: u's own text, and the replies to it
OwnTurns(u) == {Turn("user", PairText(u)), Turn("assistant", PairReply(u))}

\* the user a step of the task in slot s acts for
Actor(s) == IF task[s].pc = "idle" THEN task'[s].author ELSE task[s].author

\* every buffer holds only turns appended for its user, and every context
\* built for a user is the system turn and turns appended for that user
OnlyOwnTurns ==
    /\ \A u \in Users :
          \A k \in 1..Len(conversation_history[u]) :
             conversation_history[u][k] \in OwnTurns(u)
    /\ \A s \in Slots :
          task[s].pc \in {"create", "send"} =>
             /\ task[s].messages[1] = Turn("system", SYSTEM_PROMPT)
             /\ \A k \in 2..Len(task[s].messages) :
                   task[s].messages[k] \in OwnTurns(task[s].author)

\* C11: the users are independent.  A step changes the buffer of a user only
\* if it is a step of a task handling an event of that user (an exchange
\* that succeeds, one that fails, a reset), whatever else is in flight; so
\* every buffer holds only turns appended for its own user, and the context
\* built for a user never holds a turn appended for another.
C11_CrossUserIndependence ==
    [][/\ Cardinality({s \in Slots : task'[s] # task[s]}) <= 1
       /\ \A b \in Users :
             conversation_history'[b] # conversation_history[b] =>
                \E s \in Slots : task'[s] # task[s] /\ Actor(s) = b
       /\ OnlyOwnTurns'
      ]_vars

\* C11's case: u1's exchange succeeded and its answer is still going out
\* while the completion call of u2 is in progress with u2's turn alone.
C11_Witness ==
    \E s \in Slots, t \in Slots :
        /\ task[t].pc = "send"
        /\ task[t].author = "u1"
        /\ conversation_history["u1"] =
              <<Turn("user", PairText("u1")), Turn("assistant", PairReply("u1"))>>
        /\ task[s].pc = "create"
        /\ task[s].author = "u2"
        /\ task[s].messages =
              <<Turn("system", SYSTEM_PROMPT), Turn("user", PairText("u2"))>>
        /\ conversation_history["u2"] = <<Turn("user", PairText("u2"))>>

\* the messages the bot ignores: its own, whatever they hold, and those of
\* users in a guild channel that do not mention it and are not prefixed
IgnoredMessages ==
    [author : {BotUser}, channel : {"dm", "guild"}, mentioned : {TRUE},
     content : Contents]
    \cup
    [author : {BotUser}, channel : {"dm", "guild"}, mentioned : {FALSE},
     content : PrefixedContents \cup PlainContents]
    \cup
    [author : Users, channel : {"guild"}, mentioned : {FALSE},
     content : PlainContents]

\* C12: a message of the bot itself, and a message in a guild channel that
\* is not prefixed and does not mention the bot, have no effect: on_message
\* returns at once, no task is left behind (so no completion request and no
\* fragment), every buffer stays as it is and nothing is raised.  (For every
\* step that is on_message(s, m) of an ignored message m.)
C12_IgnoredHaveNoEffect ==
    [][nEvents' = nEvents + 1 =>
          \A s \in Slots : \A m \in IgnoredMessages :
             \/ ~FreeSlot(s)
             \/ /\ task' = task
                /\ task'[s] = Idle
                /\ conversation_history' = conversation_history
                /\ raised' = raised
             \/ ~on_message(s, m)
      ]_vars

\* C12's case: two events were delivered and the only thing in flight is
\* one request of u1, with its turn alone in the store: the other event
\* left nothing behind.
C12_Witness ==
    /\ nEvents = 2
    /\ \E s \in Slots :
          /\ task[s].pc = "create"
          /\ task[s].author = "u1"
          /\ \A t \in Slots : t # s => task[t] = Idle
    /\ Len(conversation_history["u1"]) = 1
    /\ conversation_history["u2"] = <<>>
    /\ raised = {}

\* the direct messages of users that are not prefixed and have a text, with
\* and without mention tokens of the bot in it
DirectMessages ==
    [author : Users, channel : {"dm"}, mentioned : {TRUE},
     content : MentionContents \cup {Hi}]
    \cup
    [author : Users, channel : {"dm"}, mentioned : {FALSE},
     content : {Hi}]

\* C13: a direct message of a user that is not prefixed and has a text
\* always brings a reply, and its whole text, unchanged, is the user message:
\* on_message leaves its task waiting to run get_ai_response with
\* user_message = message.content (mention tokens and blanks kept); a
\* waiting task can only go on into get_ai_response, which appends that text
\* as the last user turn of the buffer and of the context; and a completion
\* call can only end with a first fragment sent by message.reply.
C13_DirectMessageAnswered ==
    [][/\ nEvents' = nEvents + 1 =>
            \A s \in Slots : \A m \in DirectMessages :
               \/ ~FreeSlot(s)
               \/ /\ task'[s].pc = "typing"
                  /\ task'[s].author = m.author
                  /\ task'[s].user_message = m.content
               \/ ~on_message(s, m)
       /\ \A s \in Slots :
            /\ (task[s].pc = "typing" /\ task'[s] # task[s]) =>
                  /\ task'[s].pc = "create"
                  /\ Last(conversation_history'[task[s].author])
                        = Turn("user", task[s].user_message)
                  /\ Last(task'[s].messages) = Turn("user", task[s].user_message)
            /\ (task[s].pc = "create" /\ task'[s] # task[s]) =>
                  /\ task'[s].pc = "send"
                  /\ Len(task'[s].out) = 1
                  /\ task'[s].out[1].via = "reply"
      ]_vars

\* C13's case: a direct message made of the nickname mention and a blank is
\* with the completion client as it was written.
C13_Witness ==
    \E s \in Slots :
        /\ task[s].pc = "create"
        /\ task[s].user_message = Concat(NickMention, Space)
        /\ Last(conversation_history[task[s].author])
              = Turn("user", Concat(NickMention, Space))
        /\ Last(task[s].messages) = Turn("user", Concat(NickMention, Space))

\* is the response the apology of the failure path?
IsApology(response) == UpTo(response, StrLen(SorryPrefix)) = SorryPrefix

\* C14, as claimed: when the completion call fails, exactly one fragment is
\* sent for the event, the whole apology as a threaded reply, whatever the
\* length of the error detail, and nothing after it.
C14_SingleApology ==
    \A s \in Slots :
        (task[s].pc = "send" /\ IsApology(task[s].response))
        => task[s].out = <<Sent("reply", task[s].response)>>

\* C14, amended: when the completion call fails, the response is the
\* apology "Sorry, I encountered an error: " followed by the error detail,
\* and it is sent the way every response is: whole, as one threaded reply,
\* when it has at most 2000 characters; otherwise in ceil(L / 2000)
\* fragments of at most 2000 characters, the first a threaded reply and the
\* others sent to the channel, which joined are the apology.  Nothing else
\* is sent for the event.
C14_ApologyFragmented ==
    [][\A s \in Slots :
          /\ \A e \in SendErrors :
                (task[s].pc = "create" /\ create_raises(s, e)) =>
                   /\ task'[s].pc = "send"
                   /\ task'[s].response = Concat(SorryPrefix, e)
                   /\ Len(task'[s].out) = 1
          /\ (task'[s].pc = "send" /\ IsApology(task'[s].response)) =>
                LET t == task'[s]
                    L == StrLen(t.response)
                    n == Len(t.out)
                IN  /\ 1 <= n /\ n <= FragmentCount(L)
                    /\ t.out[1].via = "reply"
                    /\ \A k \in 2..n : t.out[k].via = "send"
                    /\ \A k \in 1..n : StrLen(t.out[k].text) <= DISCORD_LIMIT
                    /\ Joined(t.out) = UpTo(t.response, n * DISCORD_LIMIT)
                    /\ L <= DISCORD_LIMIT => t.out = <<Sent("reply", t.response)>>
          /\ (task[s].pc = "send" /\ task'[s].pc = "idle"
                 /\ IsApology(task[s].response)) =>
                /\ Len(task[s].out) = FragmentCount(StrLen(task[s].response))
                /\ Joined(task[s].out) = task[s].response
      ]_vars

\* C14's case: the completion call failed with a detail of 2000 characters
\* and the apology has gone out in two fragments, a reply of 2000
\* characters and a channel send of the rest.
C14_Witness ==
    \E s \in Slots :
        /\ task[s].pc = "send"
        /\ task[s].response = Concat(SorryPrefix, Rep("x", DISCORD_LIMIT))
        /\ Len(task[s].out) = 2
        /\ task[s].out[1] = Sent("reply", UpTo(task[s].response, DISCORD_LIMIT))
        /\ task[s].out[2] = Sent("send", From(task[s].response, DISCORD_LIMIT))
        /\ conversation_history[task[s].author] = task[s].entry

\* C15: the history matches what the completion client saw.  When the
\* completion call returns a reply, the user's buffer becomes exactly the
\* context that was sent, without its leading system turn, followed by one
\* assistant turn holding the reply; the reply is the response the task
\* sends, and when the last fragment has gone out the fragments joined are
\* that text.
C15_HistoryMatchesContext ==
    [][\A s \in Slots :
          /\ \A r \in SendReplies :
                (task[s].pc = "create" /\ create_returns(s, r)) =>
                   /\ task[s].messages[1] = Turn("system", SYSTEM_PROMPT)
                   /\ conversation_history'[task[s].author] =
                          Tail(task[s].messages) \o <<Turn("assistant", r)>>
                   /\ task'[s].response = r
                   /\ task'[s].messages = task[s].messages
          /\ (task[s].pc = "send" /\ task'[s].pc = "idle"
                 /\ ~IsApology(task[s].response)) =>
                Joined(task[s].out) = task[s].response
      ]_vars

\* C15's case: a reply of 4500 characters is the assistant turn that follows
\* the context in the buffer, and its three fragments joined are that text.
C15_Witness ==
    \E s \in Slots :
        /\ task[s].pc = "send"
        /\ StrLen(task[s].response) = 2 * DISCORD_LIMIT + 500
        /\ Len(task[s].out) = 3
        /\ Joined(task[s].out) = task[s].response
        /\ conversation_history[task[s].author] =
              Tail(task[s].messages) \o <<Turn("assistant", task[s].response)>>

\* is a the end of b?
IsSuffix(a, b) ==
    /\ Len(a) <= Len(b)
    /\ a = SubSeq(b, Len(b) - Len(a) + 1, Len(b))

\* C16: a failed exchange is not retained.  When the completion call fails,
\* the turn removed is the last of the buffer, the user turn this request
\* appended; no turn is added; and what is left is an end of the buffer the
\* request found, so only turns that were there before it.
C16_FailedNotRetained ==
    [][\A s \in Slots : \A e \in Errors :
          (task[s].pc = "create" /\ create_raises(s, e)) =>
             LET u == task[s].author
                 h == conversation_history[u]
             IN  /\ h # <<>>
                 /\ Last(h) = Turn("user", task[s].user_message)
                 /\ conversation_history'[u] = SubSeq(h, 1, Len(h) - 1)
                 /\ IsSuffix(conversation_history'[u], task[s].entry)
                 /\ IsApology(task'[s].response)
      ]_vars

\* C16's case: a request that found MAX_HISTORY_LENGTH turns has failed; its
\* user turn is gone and the buffer is an end of the one it found.
C16_Witness ==
    \E s \in Slots :
        /\ task[s].pc = "send"
        /\ IsApology(task[s].response)
        /\ Len(task[s].entry) = MAX_HISTORY_LENGTH
        /\ Len(conversation_history[task[s].author]) = MAX_HISTORY_LENGTH - 1
        /\ IsSuffix(conversation_history[task[s].author], task[s].entry)

\* the messages that are to be answered but carry no text for the
\* completion client: in a guild channel, the bot's mention token alone, in
\* the plain encoding and in the nickname encoding followed by a blank; in a
\* direct channel, a message without text
EmptyMessages ==
    [author : Users, channel : {"guild"}, mentioned : {TRUE},
     content : {PlainMention, Concat(NickMention, Space)}]
    \cup
    [author : Users, channel : {"dm"}, mentioned : BOOLEAN, content : {<<>>}]

\* C17: a message that is to be answered but whose user message is empty
\* causes nothing: no completion request, no fragment, no change of a
\* buffer.  (For every step that is on_message(s, m) of such a message m.)
C17_EmptyCausesNothing ==
    [][nEvents' = nEvents + 1 =>
          \A s \in Slots : \A m \in EmptyMessages :
             \/ ~FreeSlot(s)
             \/ /\ task' = task
                /\ conversation_history' = conversation_history
             \/ ~on_message(s, m)
      ]_vars

\* is a completion call in progress for user u?
InProgress(u) == \E s \in Slots : task[s].pc = "create" /\ task[s].author = u

\* C18: whenever no completion call is in progress for a user, the user's
\* buffer is empty or ends with an assistant turn, and any two adjacent turns
\* of it have different roles.
C18_RolesAlternate ==
    \A u \in Users :
        ~InProgress(u) =>
           LET h == conversation_history[u]
           IN  /\ h = <<>> \/ Last(h).role = "assistant"
               /\ \A k \in 1..(Len(h) - 1) : h[k].role # h[k + 1].role

\* C18's case: no call is in progress and the buffer holds
\* MAX_HISTORY_LENGTH + 1 turns: a trim has cut an exchange in two, and the
\* buffer starts and ends with an assistant turn.
C18_Witness ==
    \E u \in Users :
        /\ ~InProgress(u)
        /\ Len(conversation_history[u]) = MAX_HISTORY_LENGTH + 1
        /\ conversation_history[u][1].role = "assistant"
        /\ Last(conversation_history[u]).role = "assistant"

\* C19: the rollback of the failure path never finds an empty buffer and
\* always removes the user turn its own request appended, whatever messages
\* and resets of the same user are in flight: when the completion call
\* fails, the buffer is still the context the request built (without the
\* system turn), its last turn is the request's user turn, the pop raises
\* nothing and the apology is sent.  No exception ever leaves on_message.
C19_RollbackNeverRaises ==
    [][/\ \A s \in Slots : \A e \in Errors :
             (task[s].pc = "create" /\ create_raises(s, e)) =>
                LET h == conversation_history[task[s].author]
                IN  /\ h # <<>>
                    /\ h = Tail(task[s].messages)
                    /\ Last(h).role = "user"
                    /\ Last(h).content = task[s].user_message
                    /\ pop(h).raises = {}
                    /\ task'[s].pc = "send"
       /\ raised' = {}
      ]_vars

\* C19's case: a !reset of the same user came in while the request waited
\* for the typing indicator (the reset's reply is still going out); the
\* request then appended its turn to the emptied buffer, its completion call
\* failed and the rollback removed that turn.
C19_Witness ==
    \E s \in Slots, t \in Slots :
        /\ task[t].pc = "command"
        /\ task[t].message.content = ResetText
        /\ task[s].pc = "send"
        /\ task[s].author = task[t].author
        /\ IsApology(task[s].response)
        /\ task[s].entry = <<>>
        /\ conversation_history[task[s].author] = <<>>
        /\ raised = {}

=============================================================================
